---- MODULE Spec2Model ----
(***************************************************************************)
(* State-machine model of the commerce backend (server.js, middleware.js,  *)
(* models.js): the access gate (protect, isAdmin), registration and login, *)
(* the order engine (POST /api/orders), the admin catalog routes and the   *)
(* user toggle.                                                            *)
(*                                                                         *)
(* The three Mongoose collections are the shared state.  Every request is  *)
(* a process; one action is one database operation together with the       *)
(* synchronous code that follows it up to the next await, so the actions   *)
(* of concurrent requests interleave exactly at the awaits of the source.  *)
(***************************************************************************)
EXTENDS Integers, Sequences, FiniteSets, TLC

\* ------------------------------------------------------------- bounds
MaxReqs == 2       \* requests per behaviour
MaxQty == 2        \* largest stock / ordered quantity
MaxItems == 2      \* longest orderItems list
MaxPrice == 2      \* largest price
MaxTime == 31      \* last day the clock reaches

\* ---------------------------------------------------- program constants
TokenLife == 30    \* expiresIn: '30d', in days

\* ------------------------------------------------------------- values
ReqIds == 1..MaxReqs
UserIds == {"a1", "c1"}
ProductIds == {"p1", "p2"}
Sizes == {"S", "M"}
NoUser == "none"
NoToken == [sig |-> "none", id |-> NoUser, iat |-> 0, exp |-> 0]
Absent == 0 - 1    \* a field the request body does not carry (undefined)

\* --------------------------------------------------------- collections
VARIABLES users, products, orders, allocated, req, now
vars == <<users, products, orders, allocated, req, now>>

\* A Product document that is not in the collection.
NoProduct == [exists |-> FALSE, price |-> 0, stock |-> <<>>, v |-> 0]

InitStock == <<[size |-> "S", quantity |-> MaxQty], [size |-> "M", quantity |-> 1]>>

\* bcrypt.hash of a password (the salt is left out), and bcrypt.compare.
Hash(password) == <<"bcrypt", password>>
Compare(password, hash) == hash = Hash(password)

\* The users present at the start: an admin and a client, both registered
\* earlier, so their passwords are stored hashed.
InitUsers ==
    [u \in UserIds |->
        [role |-> IF u = "a1" THEN "admin" ELSE "client", isActive |-> TRUE,
         email |-> IF u = "a1" THEN "root@x.io" ELSE "ann@x.io",
         password |-> Hash(IF u = "a1" THEN "admin-pw" ELSE "secret1")]]

InitProducts ==
    [p \in ProductIds |->
        IF p = "p1"
        THEN [exists |-> TRUE, price |-> 1, stock |-> InitStock, v |-> 0]
        ELSE NoProduct]

NoDoc == [none |-> TRUE]
NoBody == [none |-> TRUE]
NoHeader == [scheme |-> "none", token |-> NoToken]

IdleReq ==
    [pc |-> "idle", route |-> "none", header |-> NoHeader, user |-> NoUser,
     status |-> 0, sends |-> 0, ran |-> FALSE, body |-> NoBody,
     target |-> "none", i |-> 0, doc |-> NoDoc, token |-> NoToken,
     result |-> <<>>]

Init ==
    /\ users = InitUsers
    /\ products = InitProducts
    /\ orders = <<>>
    /\ allocated = {"p1"}
    /\ req = [r \in ReqIds |-> IdleReq]
    /\ now = 0

\* ------------------------------------------------------------- routes
AdminRoutes ==
    {"createProduct", "updateProduct", "deleteProduct", "listOrders", "stats",
     "listUsers", "toggleActive"}
ProtectedRoutes == AdminRoutes \cup {"placeOrder", "me", "myOrders"}

\* --------------------------------------------------------------- tokens
\* generateToken(id) called on day t: jwt.sign stamps iat and exp.
GenerateToken(id, t) == [sig |-> "ok", id |-> id, iat |-> t, exp |-> t + TokenLife]

\* ---------------------------------------------------------- middleware
\* jwt.verify that never looks at exp.
VerifyNoExpiry(token) == token.sig = "ok"

\* jwt.verify: throws unless the token is present, carries a good signature
\* and the clock is still before its exp (expired when clock >= exp).
Verify(token) == token.sig = "ok" /\ now < token.exp

\* protect that calls next for any Bearer header, verified or not.
ProtectUnverified(header, us) ==
    IF header.scheme = "Bearer"
    THEN [user |-> IF header.token.id \in DOMAIN us THEN header.token.id ELSE NoUser,
          next |-> TRUE, sends |-> 0]
    ELSE [user |-> NoUser, next |-> FALSE, sends |-> 1]

\* protect: the outcome for one request, reading the users collection us.
\* sends counts the res.status(401).json calls, next is whether next() ran.
Protect(header, us) ==
    IF header.scheme = "Bearer"
    THEN IF ~Verify(header.token)
         THEN \* catch block answers; an undefined token also reaches `if (!token)`
              [user |-> NoUser, next |-> FALSE,
               sends |-> IF header.token = NoToken THEN 2 ELSE 1]
         ELSE IF header.token.id \notin DOMAIN us
              THEN [user |-> NoUser, next |-> FALSE, sends |-> 1]
              ELSE [user |-> header.token.id, next |-> TRUE, sends |-> 0]
    ELSE [user |-> NoUser, next |-> FALSE, sends |-> 1]

\* isAdmin that only asks for a logged-in user.
IsAdminAnyUser(user, us) == user # NoUser

\* isAdmin: req.user && req.user.role === 'admin'
IsAdmin(user, us) == user # NoUser /\ us[user].role = "admin"

\* ------------------------------------------------------------ helpers
Min(S) == CHOOSE x \in S : \A y \in S : x <= y

\* product.stock.find(s => s.size === item.size): index of the first entry of
\* that size, 0 when there is none.
FindStock(stock, size) ==
    LET hits == {k \in 1..Len(stock) : stock[k].size = size}
    IN IF hits = {} THEN 0 ELSE Min(hits)

\* The schema without its min: 0 validator.
StockValidNoMin(stock) == \A k \in 1..Len(stock) : stock[k].quantity \in Int

\* ProductSchema.stock: quantity is required with min: 0.
StockValid(stock) == \A k \in 1..Len(stock) : stock[k].quantity >= 0

\* OrderSchema: every line item needs product, quantity, size and price;
\* totalAmount and the three shippingAddress fields are required.
OrderValid(body) ==
    /\ \A k \in 1..Len(body.orderItems) : body.orderItems[k].price # Absent
    /\ body.totalAmount # Absent
    /\ body.addrOk

\* new Order({...}) that takes the owner from the request body.
NewOrderOwnerFromBody(user, body) ==
    [user |-> body.user,
     products |-> body.orderItems,
     totalAmount |-> body.totalAmount,
     status |-> "Pending",
     paymentStatus |-> "Completed"]

\* new Order({...}) of POST /api/orders, with the schema defaults.
NewOrder(user, body) ==
    [user |-> user,
     products |-> body.orderItems,
     totalAmount |-> body.totalAmount,
     status |-> "Pending",
     paymentStatus |-> "Completed"]

Done(q, code) == [q EXCEPT !.pc = "done", !.status = code, !.sends = 1, !.doc = NoDoc]

\* check('email').isEmail(): the addresses of the form local@domain.tld.
IsEmail(email) == email \in {"ann@x.io", "Ann@x.io", "bob@x.io", "root@x.io"}

\* User.findOne({ email }): the ids of the users stored under exactly that email.
FindByEmail(us, email) == {u \in DOMAIN us : us[u].email = email}

\* ------------------------------------------------------ request arrival
\* A POST /api/orders handler that enters its loop without looking at the list.
EntryNoEmptyCheck(q, fresh) == [q EXCEPT !.pc = "find", !.i = 1]

\* The synchronous start of each route handler, up to its first await.
Entry(q, fresh) ==
    CASE q.route = "placeOrder" ->
           IF "orderItems" \notin DOMAIN q.body \/ Len(q.body.orderItems) = 0
           THEN Done(q, 400)
           ELSE [q EXCEPT !.pc = "find", !.i = 1]
      [] q.route = "createProduct" ->
           IF q.body.form # "ok" THEN Done(q, 400)
           ELSE IF q.body.stock.kind = "bad" THEN Done(q, 500)
           ELSE [q EXCEPT !.pc = "insert", !.target = fresh]
      [] q.route = "updateProduct" -> [q EXCEPT !.pc = "ufind"]
      [] q.route = "deleteProduct" -> [q EXCEPT !.pc = "dfind"]
      [] q.route = "toggleActive" -> [q EXCEPT !.pc = "tfind"]
      [] q.route = "me" -> Done(q, 200)
      [] q.route = "myOrders" -> [q EXCEPT !.pc = "mfind"]
      [] q.route = "login" -> [q EXCEPT !.pc = "lfind"]
      [] q.route = "register" ->
           IF q.body.name = "" \/ ~IsEmail(q.body.email) \/ Len(q.body.password) < 6
           THEN Done(q, 400)
           ELSE [q EXCEPT !.pc = "rfind"]
      [] OTHER -> [q EXCEPT !.pc = "read"]

\* A request arrives: on a protected route protect reads the user, then
\* isAdmin on admin routes, then the handler starts.  A rejected request never reads its body, which
\* is therefore not kept.
Arrive(r, menu) ==
    /\ req[r].pc = "idle"
    /\ \A k \in 1..(r - 1) : req[k].pc # "idle"     \* slots are taken in order
    /\ \E m \in menu :
         LET g == Protect(m.header, users)
             admin == m.route \in AdminRoutes
             public == m.route \notin ProtectedRoutes
             pass == public \/ (g.next /\ (admin => IsAdmin(g.user, users)))
             creates == pass /\ m.route = "createProduct" /\ m.body.form = "ok"
                          /\ m.body.stock.kind # "bad"
             base == [IdleReq EXCEPT !.route = m.route, !.header = m.header,
                                     !.user = IF public THEN NoUser ELSE g.user]
         IN /\ creates => allocated # ProductIds
            /\ IF ~public /\ ~g.next
               THEN /\ req' = [req EXCEPT ![r] =
                               [base EXCEPT !.pc = "done", !.status = 401,
                                            !.sends = g.sends]]
                    /\ allocated' = allocated
               ELSE IF ~pass
               THEN /\ req' = [req EXCEPT ![r] = Done(base, 403)]
                    /\ allocated' = allocated
               ELSE LET fresh == IF creates
                                 THEN CHOOSE p \in ProductIds : p \notin allocated
                                 ELSE m.target
                        q == [base EXCEPT !.ran = TRUE, !.body = m.body,
                                          !.target = m.target]
                    IN /\ req' = [req EXCEPT ![r] = Entry(q, fresh)]
                       /\ allocated' = IF creates THEN allocated \cup {fresh}
                                       ELSE allocated
    /\ UNCHANGED <<users, products, orders, now>>

\* ------------------------------------------------------- POST /api/orders
Item(q) == q.body.orderItems[q.i]

\* The loop iteration with a check that only asks for a non-empty entry.
OrderFindNonEmpty(r) ==
    LET q == req[r]
        p == products[Item(q).product]
        k == FindStock(p.stock, Item(q).size)
    IN /\ q.pc = "find"
       /\ IF ~p.exists
          THEN req' = [req EXCEPT ![r] = Done(q, 500)]
          ELSE IF k = 0 \/ p.stock[k].quantity < 1
          THEN req' = [req EXCEPT ![r] = Done(q, 400)]
          ELSE req' = [req EXCEPT ![r] =
                  [q EXCEPT !.pc = "save",
                            !.doc = [v |-> p.v, idx |-> k,
                                     old |-> p.stock[k].quantity,
                                     qty |-> p.stock[k].quantity - Item(q).quantity]]]
       /\ UNCHANGED <<users, products, orders, allocated, now>>

\* Product.findById, stock.find, the sufficiency check and the in-memory
\* decrement of one loop iteration.
OrderFind(r) ==
    LET q == req[r]
        p == products[Item(q).product]
        k == FindStock(p.stock, Item(q).size)
    IN /\ q.pc = "find"
       /\ IF ~p.exists
          THEN req' = [req EXCEPT ![r] = Done(q, 500)]   \* product is null: TypeError
          ELSE IF k = 0 \/ p.stock[k].quantity < Item(q).quantity
          THEN req' = [req EXCEPT ![r] = Done(q, 400)]
          ELSE req' = [req EXCEPT ![r] =
                  [q EXCEPT !.pc = "save",
                            !.doc = [v |-> p.v, idx |-> k,
                                     old |-> p.stock[k].quantity,
                                     qty |-> p.stock[k].quantity - Item(q).quantity]]]
       /\ UNCHANGED <<users, products, orders, allocated, now>>

\* What the loop does after a save that succeeded.
AfterSave(q) ==
    IF q.i < Len(q.body.orderItems)
    THEN [q EXCEPT !.pc = "find", !.i = q.i + 1, !.doc = NoDoc]
    ELSE [q EXCEPT !.pc = "saveOrder", !.doc = NoDoc]

\* product.save() of the loop: validates, then $set stock.<idx>.quantity on the
\* document of that _id and version (a write by array position carries the
\* version read; a document replaced, removed or of another version makes
\* save() throw, which the handler's catch answers with 500).  Only the
\* modified path is written: what another request wrote elsewhere stays.
OrderSave(r) ==
    LET q == req[r]
        id == Item(q).product
        p == products[id]
    IN /\ q.pc = "save"
       /\ IF q.doc.qty = q.doc.old
          THEN /\ req' = [req EXCEPT ![r] = AfterSave(q)]     \* nothing modified
               /\ products' = products
          ELSE IF q.doc.qty < 0 \/ ~p.exists \/ p.v # q.doc.v
          THEN /\ req' = [req EXCEPT ![r] = Done(q, 500)]
               /\ products' = products
          ELSE /\ req' = [req EXCEPT ![r] = AfterSave(q)]
               /\ products' = [products EXCEPT
                                 ![id].stock[q.doc.idx].quantity = q.doc.qty]
       /\ UNCHANGED <<users, orders, allocated, now>>

\* An order.save() that stores the Order before it validates it.
OrderCommitUnvalidated(r) ==
    LET q == req[r]
    IN /\ q.pc = "saveOrder"
       /\ orders' = Append(orders, NewOrder(q.user, q.body))
       /\ req' = [req EXCEPT ![r] = Done(q, IF OrderValid(q.body) THEN 201 ELSE 500)]
       /\ UNCHANGED <<users, products, allocated, now>>

\* new Order(...) and order.save().
OrderCommit(r) ==
    LET q == req[r]
    IN /\ q.pc = "saveOrder"
       /\ IF OrderValid(q.body)
          THEN /\ orders' = Append(orders, NewOrder(q.user, q.body))
               /\ req' = [req EXCEPT ![r] = Done(q, 201)]
          ELSE /\ orders' = orders
               /\ req' = [req EXCEPT ![r] = Done(q, 500)]
       /\ UNCHANGED <<users, products, allocated, now>>

\* ----------------------------------------------------- admin: products
\* newProduct.save() of POST /api/products: validates, then inserts.
ProductInsert(r) ==
    LET q == req[r]
    IN /\ q.pc = "insert"
       /\ IF StockValid(q.body.stock.val)
          THEN /\ products' = [products EXCEPT ![q.target] =
                                 [exists |-> TRUE, price |-> q.body.price,
                                  stock |-> q.body.stock.val, v |-> 0]]
               /\ req' = [req EXCEPT ![r] = Done(q, 201)]
          ELSE /\ products' = products
               /\ req' = [req EXCEPT ![r] = Done(q, 500)]
       /\ UNCHANGED <<users, orders, allocated, now>>

\* Product.findById of PUT /api/products/:id and the field assignments
\* (price || product.price keeps the price when the body gives none).
ProductUpdateFind(r) ==
    LET q == req[r]
        p == products[q.target]
    IN /\ q.pc = "ufind"
       /\ IF ~p.exists
          THEN req' = [req EXCEPT ![r] = Done(q, 404)]
          ELSE IF q.body.stock.kind = "bad"
          THEN req' = [req EXCEPT ![r] = Done(q, 500)]       \* JSON.parse throws
          ELSE req' = [req EXCEPT ![r] =
                  [q EXCEPT !.pc = "usave",
                            !.doc = [v |-> p.v, read |-> p.price,
                                     price |-> IF q.body.price > 0 THEN q.body.price
                                               ELSE p.price]]]
       /\ UNCHANGED <<users, products, orders, allocated, now>>

\* product.save() of PUT /api/products/:id: validates, then writes the
\* modified paths; replacing the stock array is a versioned write.
ProductUpdateSave(r) ==
    LET q == req[r]
        p == products[q.target]
        setStock == q.body.stock.kind = "json"
        setPrice == q.doc.price # q.doc.read
    IN /\ q.pc = "usave"
       /\ IF ~setStock /\ ~setPrice
          THEN /\ products' = products
               /\ req' = [req EXCEPT ![r] = Done(q, 200)]
          ELSE IF \/ setStock /\ ~StockValid(q.body.stock.val)
                  \/ ~p.exists
                  \/ setStock /\ p.v # q.doc.v
          THEN /\ products' = products
               /\ req' = [req EXCEPT ![r] = Done(q, 500)]
          ELSE /\ products' = [products EXCEPT ![q.target] =
                                 [p EXCEPT
                                    !.price = IF setPrice THEN q.doc.price ELSE @,
                                    !.stock = IF setStock THEN q.body.stock.val ELSE @,
                                    !.v = IF setStock THEN @ + 1 ELSE @]]
               /\ req' = [req EXCEPT ![r] = Done(q, 200)]
       /\ UNCHANGED <<users, orders, allocated, now>>

\* Product.findById of DELETE /api/products/:id.
ProductDeleteFind(r) ==
    LET q == req[r]
    IN /\ q.pc = "dfind"
       /\ req' = [req EXCEPT ![r] =
                    IF products[q.target].exists THEN [q EXCEPT !.pc = "ddel"]
                    ELSE Done(q, 404)]
       /\ UNCHANGED <<users, products, orders, allocated, now>>

\* product.deleteOne().
ProductDelete(r) ==
    LET q == req[r]
    IN /\ q.pc = "ddel"
       /\ products' = [products EXCEPT ![q.target] = NoProduct]
       /\ req' = [req EXCEPT ![r] = Done(q, 200)]
       /\ UNCHANGED <<users, orders, allocated, now>>

\* -------------------------------------------------------- admin: users
\* User.findById of PUT /api/users/:id/toggle-active and the in-memory flip.
ToggleFind(r) ==
    LET q == req[r]
    IN /\ q.pc = "tfind"
       /\ req' = [req EXCEPT ![r] =
                    IF q.target \in DOMAIN users
                    THEN [q EXCEPT !.pc = "tsave",
                                   !.doc = [isActive |-> ~users[q.target].isActive]]
                    ELSE Done(q, 404)]
       /\ UNCHANGED <<users, products, orders, allocated, now>>

\* user.save(): writes isActive; the password is not modified, so the
\* pre-save hook leaves it alone.
ToggleSave(r) ==
    LET q == req[r]
    IN /\ q.pc = "tsave"
       /\ users' = [users EXCEPT ![q.target].isActive = q.doc.isActive]
       /\ req' = [req EXCEPT ![r] = Done(q, 200)]
       /\ UNCHANGED <<products, orders, allocated, now>>

\* --------------------------------------------------- POST /api/auth/login
\* User.findOne({ email }).select('+password'); an unknown email is answered
\* at once, without calling bcrypt.compare.
LoginFind(r) ==
    LET q == req[r]
        hits == FindByEmail(users, q.body.email)
    IN /\ q.pc = "lfind"
       /\ IF hits = {}
          THEN req' = [req EXCEPT ![r] = Done(q, 401)]
          ELSE \E u \in hits :
                 req' = [req EXCEPT ![r] =
                    [q EXCEPT !.pc = "lcompare",
                              !.doc = [id |-> u, password |-> users[u].password,
                                       isActive |-> users[u].isActive]]]
       /\ UNCHANGED <<users, products, orders, allocated, now>>

\* After bcrypt.compare: the password check, the isActive check and the
\* answer with generateToken(user._id), all on the document read before.
\* bcrypt.compare rejects when the body carries no password (its argument is
\* not a string), which the catch answers with 500.
LoginAnswer(r) ==
    LET q == req[r]
    IN /\ q.pc = "lcompare"
       /\ req' = [req EXCEPT ![r] =
                    IF "password" \notin DOMAIN q.body THEN Done(q, 500)
                    ELSE IF ~Compare(q.body.password, q.doc.password) THEN Done(q, 401)
                    ELSE IF ~q.doc.isActive THEN Done(q, 403)
                    ELSE [Done(q, 200) EXCEPT !.user = q.doc.id,
                                              !.token = GenerateToken(q.doc.id, now)]]
       /\ UNCHANGED <<users, products, orders, allocated, now>>

\* ------------------------------------------------ POST /api/auth/register
\* The _id that new User(...) gives the document of request r.
NewUserId(r) == "u" \o ToString(r)

\* User.findOne({ email }) and, when there is none, new User({...}).
RegisterFind(r) ==
    LET q == req[r]
    IN /\ q.pc = "rfind"
       /\ req' = [req EXCEPT ![r] =
                    IF FindByEmail(users, q.body.email) # {} THEN Done(q, 400)
                    ELSE [q EXCEPT !.pc = "rsave"]]
       /\ UNCHANGED <<users, products, orders, allocated, now>>

\* A registration that builds the user from the whole request body, role
\* included.
RegisterSaveWholeBody(r) ==
    LET q == req[r]
        id == NewUserId(r)
    IN /\ q.pc = "rsave"
       /\ IF FindByEmail(users, q.body.email) # {}
          THEN /\ users' = users
               /\ req' = [req EXCEPT ![r] = Done(q, 500)]
          ELSE /\ users' = users @@ (id :> [role |-> q.body.role, isActive |-> TRUE,
                                            email |-> q.body.email,
                                            password |-> Hash(q.body.password)])
               /\ req' = [req EXCEPT ![r] =
                            [Done(q, 201) EXCEPT !.user = id,
                                                 !.token = GenerateToken(id, now)]]
       /\ UNCHANGED <<products, orders, allocated, now>>

\* user.save(): the pre-save hook hashes the password, then the insert, which
\* the unique index on email refuses (E11000, answered 500 by the catch) when
\* a user with exactly that email is stored; then the 201 with a token.
RegisterSave(r) ==
    LET q == req[r]
        id == NewUserId(r)
    IN /\ q.pc = "rsave"
       /\ IF FindByEmail(users, q.body.email) # {}
          THEN /\ users' = users
               /\ req' = [req EXCEPT ![r] = Done(q, 500)]
          ELSE /\ users' = users @@ (id :> [role |-> "client", isActive |-> TRUE,
                                            email |-> q.body.email,
                                            password |-> Hash(q.body.password)])
               /\ req' = [req EXCEPT ![r] =
                            [Done(q, 201) EXCEPT !.user = id,
                                                 !.token = GenerateToken(id, now)]]
       /\ UNCHANGED <<products, orders, allocated, now>>

\* ----------------------------------------------------------------- clock
\* A day passes.
Tick ==
    /\ now < MaxTime
    /\ now' = now + 1
    /\ UNCHANGED <<users, products, orders, allocated, req>>

\* ------------------------------------------------------ read-only routes
\* Order.find({ user: req.user._id }) of GET /api/orders/my-orders and the
\* answer with what it found.
MyOrdersFind(r) ==
    LET q == req[r]
        mine(o) == o.user = q.user
    IN /\ q.pc = "mfind"
       /\ req' = [req EXCEPT ![r] =
                    [Done(q, 200) EXCEPT !.result = SelectSeq(orders, mine)]]
       /\ UNCHANGED <<users, products, orders, allocated, now>>

\* GET /api/orders, /api/admin/stats, /api/users.
ReadOnly(r) ==
    LET q == req[r]
    IN /\ q.pc = "read"
       /\ req' = [req EXCEPT ![r] = Done(q, 200)]
       /\ UNCHANGED <<users, products, orders, allocated, now>>

\* --------------------------------------------------------- request menus
\* The header of a caller who holds the token issued to u on day 0.
Bearer(u) == [scheme |-> "Bearer", token |-> GenerateToken(u, 0)]
NoStock == [kind |-> "absent", val |-> <<>>]
Json(ledger) == [kind |-> "json", val |-> ledger]

RECURSIVE SumItems(_)
\* The sum of price x quantity over a list of line items.
SumItems(items) ==
    IF items = <<>> THEN 0
    ELSE Head(items).price * Head(items).quantity + SumItems(Tail(items))

SeqsUpTo(S, n) == UNION {[1..k -> S] : k \in 0..n}

\* Stock ledgers an admin may send: one entry per size, in order, with any
\* quantity, a negative one included.
StockInputs ==
    {<<[size |-> "S", quantity |-> a]>> : a \in (0 - 1)..MaxQty}
        \cup {<<[size |-> "S", quantity |-> a], [size |-> "M", quantity |-> b]>> :
                a \in {0, MaxQty}, b \in (0 - 1)..1}

\* Requests of the shop specification: carts over every product, size and
\* quantity, sent with the listed price 1 and the matching total, and the
\* admin's catalog edits.
ShopItems ==
    [product : ProductIds, size : Sizes, quantity : 1..MaxQty, price : {1}]

ShopOrders ==
    {[route |-> "placeOrder", header |-> Bearer(u), target |-> "none",
      body |-> [orderItems |-> c, addrOk |-> TRUE, totalAmount |-> SumItems(c)]] :
        u \in UserIds, c \in SeqsUpTo(ShopItems, MaxItems)}

ShopEdits ==
    {[route |-> "createProduct", header |-> Bearer(u), target |-> "none",
      body |-> [form |-> "ok", price |-> 1, stock |-> Json(l)]] :
        u \in UserIds, l \in StockInputs}
    \cup
    {[route |-> "updateProduct", header |-> Bearer(u), target |-> p,
      body |-> [price |-> 0, stock |-> Json(l)]] :
        u \in UserIds, p \in ProductIds, l \in StockInputs}
    \cup
    {[route |-> "deleteProduct", header |-> Bearer(u), target |-> p,
      body |-> NoBody] : u \in UserIds, p \in ProductIds}

ShopMenu == ShopOrders \cup ShopEdits

\* ---------------------------------------------------------- specification
Next ==
    \E r \in ReqIds :
        \/ Arrive(r, ShopMenu)
        \/ OrderFind(r)
        \/ OrderSave(r)
        \/ OrderCommit(r)
        \/ ProductInsert(r)
        \/ ProductUpdateFind(r)
        \/ ProductUpdateSave(r)
        \/ ProductDeleteFind(r)
        \/ ProductDelete(r)

Spec == Init /\ [][Next]_vars

\* Requests of the pricing specification: carts on one stock entry, the
\* caller pricing every line at n or sending no price, with every choice of
\* total and address, and the admin's price edits.
PriceCart(qs, n) ==
    [k \in 1..Len(qs) |->
        [product |-> "p1", size |-> "S", quantity |-> qs[k], price |-> n]]

PriceCarts ==
    {PriceCart(qs, n) :
        qs \in SeqsUpTo(1..MaxQty, MaxItems) \ {<<>>}, n \in {Absent} \cup 1..MaxPrice}

\* The totals a caller may send with a cart: none, zero, or the sum of the
\* prices the caller itself put on the items.
TotalInputs(c) ==
    {Absent, 0} \cup (IF c[1].price # Absent THEN {SumItems(c)} ELSE {})

PriceOrders ==
    UNION {{[route |-> "placeOrder", header |-> Bearer("c1"), target |-> "none",
             body |-> [orderItems |-> c, addrOk |-> a, totalAmount |-> t]] :
               a \in BOOLEAN, t \in TotalInputs(c)} : c \in PriceCarts}

PriceMenu ==
    PriceOrders \cup
    {[route |-> "updateProduct", header |-> Bearer("a1"), target |-> "p1",
      body |-> [price |-> n, stock |-> NoStock]] : n \in 0..MaxPrice}

NextPrice ==
    \E r \in ReqIds :
        \/ Arrive(r, PriceMenu)
        \/ OrderFind(r)
        \/ OrderSave(r)
        \/ OrderCommit(r)
        \/ ProductUpdateFind(r)
        \/ ProductUpdateSave(r)

SpecPrice == Init /\ [][NextPrice]_vars

\* Requests of the access-gate specification: every protected route under
\* every kind of authorization header, each with one well-formed body.
Headers ==
    {NoHeader,
     [scheme |-> "Basic", token |-> NoToken],
     [scheme |-> "Bearer", token |-> NoToken],
     [scheme |-> "Bearer", token |-> [sig |-> "bad", id |-> "c1", iat |-> 0, exp |-> TokenLife]]}
        \cup {Bearer(u) : u \in UserIds}

GateBody(route) ==
    CASE route = "placeOrder" ->
           [orderItems |-> <<[product |-> "p1", size |-> "S", quantity |-> 1,
                              price |-> 1]>>,
            addrOk |-> TRUE, totalAmount |-> 1]
      [] route = "createProduct" ->
           [form |-> "ok", price |-> 1,
            stock |-> Json(<<[size |-> "S", quantity |-> 1]>>)]
      [] route = "updateProduct" -> [price |-> MaxPrice, stock |-> NoStock]
      [] OTHER -> NoBody

GateTargets(route) ==
    CASE route \in {"updateProduct", "deleteProduct"} -> {"p1"}
      [] route = "toggleActive" -> UserIds \cup {"nobody"}
      [] OTHER -> {"none"}

GateMenu ==
    UNION {{[route |-> rt, header |-> h, target |-> t, body |-> GateBody(rt)] :
              h \in Headers, t \in GateTargets(rt)} : rt \in ProtectedRoutes}

NextGate ==
    \E r \in ReqIds :
        \/ Arrive(r, GateMenu)
        \/ OrderFind(r)
        \/ OrderSave(r)
        \/ OrderCommit(r)
        \/ ProductInsert(r)
        \/ ProductUpdateFind(r)
        \/ ProductUpdateSave(r)
        \/ ProductDeleteFind(r)
        \/ ProductDelete(r)
        \/ ToggleFind(r)
        \/ ToggleSave(r)
        \/ MyOrdersFind(r)
        \/ ReadOnly(r)

SpecGate == Init /\ [][NextGate]_vars

\* Requests of the account specification: logins and registrations over a
\* few addresses and passwords, a login that sends no password, and the
\* admin's switch of the client's active flag.
LoginBodies ==
    [email : {"ann@x.io", "Ann@x.io", "bob@x.io"}, password : {"secret1", "hunter22"}]
        \cup [email : {"ann@x.io", "bob@x.io"}]

RegisterBodies ==
    [name : {"Ann", ""}, email : {"ann@x.io", "Ann@x.io", "bob@x.io", "nomail"},
     password : {"hunter22", "abc"}]

AuthMenu ==
    {[route |-> "login", header |-> NoHeader, target |-> "none", body |-> b] :
        b \in LoginBodies}
    \cup
    {[route |-> "register", header |-> NoHeader, target |-> "none", body |-> b] :
        b \in RegisterBodies}
    \cup
    {[route |-> "toggleActive", header |-> Bearer("a1"), target |-> "c1",
      body |-> NoBody]}

NextAuth ==
    \E r \in ReqIds :
        \/ Arrive(r, AuthMenu)
        \/ LoginFind(r)
        \/ LoginAnswer(r)
        \/ RegisterFind(r)
        \/ RegisterSave(r)
        \/ ToggleFind(r)
        \/ ToggleSave(r)

SpecAuth == Init /\ [][NextAuth]_vars

\* Requests of the ownership specification: single-line orders of either
\* user whose body also names a user, whoever that is, and the listing of
\* one's own orders.
OwnerMenu ==
    {[route |-> "placeOrder", header |-> Bearer(u), target |-> "none",
      body |-> [orderItems |-> <<it>>, addrOk |-> TRUE, totalAmount |-> it.quantity,
                user |-> w]] :
        u \in UserIds, w \in UserIds, it \in [product : {"p1"}, size : Sizes,
                                                quantity : 1..MaxQty, price : {1}]}
    \cup
    {[route |-> "myOrders", header |-> Bearer(u), target |-> "none",
      body |-> NoBody] : u \in UserIds}

NextOwner ==
    \E r \in ReqIds :
        \/ Arrive(r, OwnerMenu)
        \/ OrderFind(r)
        \/ OrderSave(r)
        \/ OrderCommit(r)
        \/ MyOrdersFind(r)

SpecOwner == Init /\ [][NextOwner]_vars

\* Requests of the quantity specification: the client's carts on p1 with any
\* quantity a caller may send, zero and a negative one included.
QtyMenu ==
    {[route |-> "placeOrder", header |-> Bearer("c1"), target |-> "none",
      body |-> [orderItems |-> c, addrOk |-> TRUE, totalAmount |-> 1]] :
        c \in SeqsUpTo([product : {"p1"}, size : Sizes,
                        quantity : (0 - 1)..MaxQty, price : {1}], MaxItems)}

NextQty ==
    \E r \in ReqIds :
        \/ Arrive(r, QtyMenu)
        \/ OrderFind(r)
        \/ OrderSave(r)
        \/ OrderCommit(r)

SpecQty == Init /\ [][NextQty]_vars

\* Requests of the cart specification: the client's orders with a cart of
\* every length up to the longest, the empty one included, each line asking
\* for the same quantity of p1 in size S, and an order whose body has no
\* orderItems at all.
CartMenu ==
    {[route |-> "placeOrder", header |-> Bearer("c1"), target |-> "none", body |-> b] :
        b \in {[orderItems |-> PriceCart([k \in 1..n |-> q], 1), addrOk |-> TRUE,
                 totalAmount |-> n * q] : n \in 0..MaxItems, q \in 1..MaxQty}
              \cup {[addrOk |-> TRUE, totalAmount |-> 0]}}

NextCart ==
    \E r \in ReqIds :
        \/ Arrive(r, CartMenu)
        \/ OrderFind(r)
        \/ OrderSave(r)
        \/ OrderCommit(r)

SpecCart == Init /\ [][NextCart]_vars

\* The tokens the server has handed out in answers so far.
Issued == {req[r].token : r \in ReqIds} \ {NoToken}

\* Requests of the role specification: registrations whose body also asks
\* for a role, the client's login, and /api/auth/me, an order and the
\* toggle of any user's active flag, each sent by either initial user or
\* with a token handed out since.
RoleCallers == {Bearer(u) : u \in UserIds} \cup {[scheme |-> "Bearer", token |-> t] : t \in Issued}

RoleMenu ==
    {[route |-> "register", header |-> NoHeader, target |-> "none",
      body |-> [name |-> "Bob", email |-> e, password |-> "hunter22", role |-> ro]] :
        e \in {"bob@x.io", "ann@x.io"}, ro \in {"admin", "client"}}
    \cup
    {[route |-> "login", header |-> NoHeader, target |-> "none",
      body |-> [email |-> "ann@x.io", password |-> "secret1"]]}
    \cup
    {[route |-> rt, header |-> h, target |-> "none", body |-> GateBody(rt)] :
        rt \in {"me", "placeOrder"}, h \in RoleCallers}
    \cup
    {[route |-> "toggleActive", header |-> h, target |-> t, body |-> NoBody] :
        h \in RoleCallers, t \in UserIds \cup {NewUserId(r) : r \in ReqIds}}

NextRole ==
    \E r \in ReqIds :
        \/ Arrive(r, RoleMenu)
        \/ RegisterFind(r)
        \/ RegisterSave(r)
        \/ LoginFind(r)
        \/ LoginAnswer(r)
        \/ OrderFind(r)
        \/ OrderSave(r)
        \/ OrderCommit(r)
        \/ ToggleFind(r)
        \/ ToggleSave(r)

SpecRole == Init /\ [][NextRole]_vars

\* Requests of the token specification: the client logs in, and asks for
\* /api/auth/me with the token of day 0 or with one handed out since.
TokenMenu ==
    {[route |-> "login", header |-> NoHeader, target |-> "none",
      body |-> [email |-> "ann@x.io", password |-> "secret1"]]}
    \cup
    {[route |-> "me", header |-> [scheme |-> "Bearer", token |-> t],
      target |-> "none", body |-> NoBody] :
        t \in Issued \cup {GenerateToken("c1", 0)}}

NextToken ==
    \/ \E r \in ReqIds :
          \/ Arrive(r, TokenMenu)
          \/ LoginFind(r)
          \/ LoginAnswer(r)
    \/ Tick

SpecToken == Init /\ [][NextToken]_vars

\* ================================================================ claims
Arrived(r) == req[r].pc # "idle"
Finished(r) == req[r].pc = "done"
Alone(r) == \A o \in ReqIds \ {r} : ~Arrived(o)
PlacesOrder(r) == req[r].route = "placeOrder" /\ req[r].ran
Items(r) == req[r].body.orderItems

\* The quantity of the entry of size s in a ledger, Absent when there is none.
QtyOf(stock, s) ==
    IF FindStock(stock, s) = 0 THEN Absent ELSE stock[FindStock(stock, s)].quantity
InitQty(s) == QtyOf(InitStock, s)
LiveQty(p, s) == QtyOf(products[p].stock, s)

RECURSIVE LineQty(_, _, _)
\* The quantity a list of line items takes of product p, size s.
LineQty(items, p, s) ==
    IF items = <<>> THEN 0
    ELSE (IF Head(items).product = p /\ Head(items).size = s
          THEN Head(items).quantity ELSE 0) + LineQty(Tail(items), p, s)

RECURSIVE SoldQty(_, _, _)
\* The quantity of product p, size s in a list of committed Orders.
SoldQty(os, p, s) ==
    IF os = <<>> THEN 0
    ELSE LineQty(Head(os).products, p, s) + SoldQty(Tail(os), p, s)

\* ---------------------------------------------------------------- C1
\* C1: in every reachable state, under any interleaving of placeOrder requests
\* and admin product create/update requests, every stock entry of every
\* product has quantity >= 0.
C1_StockNonNegative ==
    \A p \in ProductIds :
        \A k \in 1..Len(products[p].stock) : products[p].stock[k].quantity >= 0

\* An order and an admin stock edit have both gone through, and an entry is at 0.
C1_Witness ==
    /\ \E r \in ReqIds : PlacesOrder(r) /\ req[r].status = 201
    /\ \E r \in ReqIds : req[r].route = "updateProduct" /\ req[r].status = 200
    /\ \E p \in ProductIds :
         \E k \in 1..Len(products[p].stock) : products[p].stock[k].quantity = 0

\* ---------------------------------------------------------------- C2
\* Request r asks, in one line, for the whole initial stock of p1 in size s.
WantsAll(r, s) ==
    /\ PlacesOrder(r)
    /\ Len(Items(r)) = 1
    /\ Items(r)[1].product = "p1"
    /\ Items(r)[1].size = s
    /\ Items(r)[1].quantity = InitQty(s)

\* C2: when two placeOrder requests each ask for the entire remaining stock of
\* the same product/size, then in every interleaving exactly one succeeds with
\* a committed Order, the other fails with InsufficientStock (400), and the
\* final quantity of the entry is 0.
C2_ExactlyOneWins ==
    \A s \in Sizes :
        (WantsAll(1, s) /\ WantsAll(2, s) /\ Finished(1) /\ Finished(2)
            /\ \A r \in ReqIds \ {1, 2} : ~Arrived(r))
        => /\ {req[1].status, req[2].status} = {201, 400}
           /\ Len(orders) = 1
           /\ LiveQty("p1", s) = 0

\* ---------------------------------------------------------------- C3
\* Only single-line placeOrder requests have arrived (no admin edit, and no
\* multi-line request whose partial failure could change the stock).
OnlySingleLineOrders ==
    \A r \in ReqIds :
        Arrived(r) => req[r].route = "placeOrder" /\ (req[r].ran => Len(Items(r)) = 1)

\* C3: with concurrent placeOrder requests and no admin stock edit, for each
\* product/size the quantities in committed Orders never sum to more than the
\* initial quantity, and once all requests have finished the initial quantity
\* minus that sum is the current quantity (stated for single-line requests).
C3_NoOverselling ==
    OnlySingleLineOrders =>
        \A s \in Sizes :
            /\ SoldQty(orders, "p1", s) <= InitQty(s)
            /\ (\A r \in ReqIds : Arrived(r) => Finished(r))
                 => InitQty(s) - SoldQty(orders, "p1", s) = LiveQty("p1", s)

\* ---------------------------------------------------------------- C4
\* C4: a placeOrder request in which an earlier line item was reserved and a
\* later one fails for insufficient stock returns with the stock of every
\* earlier line item as it was before the call, and no Order committed
\* (stated for a request that runs alone from the initial state).
C4_FailureRestoresStock ==
    (/\ Alone(1) /\ Finished(1) /\ PlacesOrder(1)
     /\ req[1].status = 400 /\ req[1].i > 1
     /\ LiveQty(Items(1)[req[1].i].product, Items(1)[req[1].i].size) # Absent)
    => /\ \A k \in 1..(req[1].i - 1) :
            LiveQty(Items(1)[k].product, Items(1)[k].size)
                = QtyOf(InitProducts[Items(1)[k].product].stock, Items(1)[k].size)
       /\ orders = <<>>

\* ---------------------------------------------------------------- C5
\* The request carries a verifiable token of a user who is not an admin.
NonAdminToken(h) ==
    /\ h.scheme = "Bearer"
    /\ Verify(h.token)
    /\ h.token.id \in UserIds
    /\ users[h.token.id].role # "admin"

\* C5: a request to an admin-only route with a valid token of a non-admin user
\* is answered 403 and the route handler does not run; the same request with
\* no token is answered 401 and the route handler does not run.
C5_AdminRoutesGated ==
    \A r \in ReqIds :
        (Arrived(r) /\ req[r].route \in AdminRoutes)
        => /\ NonAdminToken(req[r].header)
                => req[r].status = 403 /\ ~req[r].ran /\ Finished(r)
           /\ req[r].header = NoHeader
                => req[r].status = 401 /\ ~req[r].ran /\ Finished(r)

\* Every admin-only route has been asked for by a client, and one with no token.
C5_Witness ==
    /\ \E r \in ReqIds :
         /\ req[r].route = "toggleActive"
         /\ NonAdminToken(req[r].header) /\ req[r].status = 403
    /\ \E r \in ReqIds :
         /\ req[r].route \in AdminRoutes
         /\ req[r].header = NoHeader /\ req[r].status = 401

\* ---------------------------------------------------------------- C6
\* Request r arrives in this step.
Arrives(r) == ~Arrived(r) /\ req'[r].pc # "idle"

\* C6: protect rejects with 401 every request whose token resolves to a user
\* that is not active: once an admin has set a user's active flag to false,
\* every later request with that user's token is rejected and no protected
\* handler runs for it, until the flag is set back to true.
C6_InactiveUserRejected ==
    [][\A r \in ReqIds :
         (/\ Arrives(r)
          /\ req'[r].header.scheme = "Bearer"
          /\ Verify(req'[r].header.token)
          /\ ~users[req'[r].header.token.id].isActive)
         => req'[r].status = 401 /\ ~req'[r].ran]_vars

\* ---------------------------------------------------------------- C7
\* Request r asks, in one line and with a complete shipping address, for
\* exactly q of p1 in size S.
OneLine(r, q) ==
    /\ PlacesOrder(r)
    /\ req[r].body.addrOk
    /\ Len(Items(r)) = 1
    /\ Items(r)[1].product = "p1" /\ Items(r)[1].size = "S"
    /\ Items(r)[1].quantity = q

\* C7: a single-line placeOrder whose quantity is exactly the available
\* quantity succeeds, commits an Order and leaves the entry at 0; a following
\* request for quantity 1 of the same entry fails with InsufficientStock (400).
C7_ExactStockOrder ==
    [][/\ (/\ Alone(1) /\ OneLine(1, InitQty("S"))
           /\ ~Finished(1) /\ req'[1].pc = "done")
          => /\ req'[1].status = 201
             /\ Len(orders') = Len(orders) + 1
             /\ QtyOf(products'["p1"].stock, "S") = 0
       /\ \A r \in ReqIds :
            (/\ OneLine(r, 1) /\ req[r].pc = "find" /\ req'[r] # req[r]
             /\ LiveQty("p1", "S") = 0)
            => req'[r].status = 400]_vars

\* ---------------------------------------------------------------- C8
\* Request r is about to check a line item that asks for more than the entry holds.
Insufficient(r) ==
    /\ req[r].pc = "find"
    /\ products[Item(req[r]).product].exists
    /\ LiveQty(Item(req[r]).product, Item(req[r]).size) # Absent
    /\ LiveQty(Item(req[r]).product, Item(req[r]).size) < Item(req[r]).quantity

\* C8: a placeOrder whose requested quantity for a product/size is greater
\* than the available quantity fails with InsufficientStock (400), leaves
\* that stock entry unchanged, and commits no Order.
C8_InsufficientStockRejected ==
    [][/\ \A r \in ReqIds :
            (Insufficient(r) /\ req'[r] # req[r])
            => /\ req'[r].pc = "done" /\ req'[r].status = 400
               /\ products' = products
               /\ orders' = orders
       \* an answered request does nothing more, and an Order is only ever
       \* committed by the request that is answered 201 in the same step
       /\ \A r \in ReqIds : Finished(r) => req'[r] = req[r]
       /\ orders' # orders
            => \E r \in ReqIds : ~Finished(r) /\ req'[r].status = 201]_vars

\* A request has been turned down at a line asking for more than the entry holds.
C8_Witness ==
    \E r \in ReqIds :
        /\ Finished(r) /\ PlacesOrder(r) /\ req[r].status = 400 /\ req[r].i >= 1
        /\ LiveQty(Items(r)[req[r].i].product, Items(r)[req[r].i].size) # Absent
        /\ LiveQty(Items(r)[req[r].i].product, Items(r)[req[r].i].size)
             < Items(r)[req[r].i].quantity

\* ---------------------------------------------------------------- C9
RECURSIVE CatalogTotal(_, _)
\* The sum over line items of the catalog price in ps times the quantity.
CatalogTotal(items, ps) ==
    IF items = <<>> THEN 0
    ELSE ps[Head(items).product].price * Head(items).quantity
            + CatalogTotal(Tail(items), ps)

\* An Order is committed in this step.
Commits == Len(orders') = Len(orders) + 1
Committed == orders'[Len(orders')]

\* C9: for every committed Order, totalAmount is the sum over its line items
\* of the product's catalog price at the moment of placement times the
\* quantity, whatever total or price the caller supplied.
C9_TotalFromCatalog ==
    [][Commits => Committed.totalAmount = CatalogTotal(Committed.products, products)]_vars

\* ---------------------------------------------------------------- C10
\* C10: each line item of a committed Order carries as its unit price the
\* Product's price when the order was placed, and the stored price stays the
\* same after any later admin update of that Product's price.
C10_PriceSnapshot ==
    [][/\ Commits
          => \A k \in 1..Len(Committed.products) :
                Committed.products[k].price
                    = products[Committed.products[k].product].price
       /\ \A k \in 1..Len(orders) :
            Len(orders') >= k /\ orders'[k].products = orders[k].products]_vars

\* ---------------------------------------------------------------- C11
\* The order.save() of request r fails in this step.
CommitFails(r) == req[r].pc = "saveOrder" /\ req'[r].pc = "done" /\ orders' = orders

\* C11: when persisting the Order fails after every line item was reserved
\* (a required shipping-address field, price or total is missing), the stock
\* of every reserved line item is back at its pre-call value when the request
\* returns, and the failure is answered 500, not as a validation failure
\* (stated for a request that runs alone from the initial state).
C11_CommitFailureRestoresStock ==
    [][(Alone(1) /\ CommitFails(1))
       => /\ req'[1].status = 500
          /\ \A k \in 1..Len(Items(1)) :
               QtyOf(products'[Items(1)[k].product].stock, Items(1)[k].size)
                   = QtyOf(InitProducts[Items(1)[k].product].stock, Items(1)[k].size)]_vars

\* ---------------------------------------------------------------- C12
\* C12: a token issued for a user verifies at the moment of issuance and at
\* every time before 30 days have passed since, and fails verification, the
\* request being answered 401 without running the handler, at every time
\* once the 30 days have elapsed.
C12_TokenWindow ==
    [][\A r \in ReqIds :
         LET h == req'[r].header
         IN (/\ Arrives(r)
             /\ req'[r].route \in ProtectedRoutes
             /\ h.scheme = "Bearer" /\ h.token.sig = "ok")
            => /\ (h.token.iat <= now /\ now < h.token.iat + 30)
                    => req'[r].ran /\ req'[r].user = h.token.id
               /\ now >= h.token.iat + 30
                    => req'[r].status = 401 /\ ~req'[r].ran]_vars

\* A token handed out by a login has been presented once its 30 days had
\* passed, and was turned down.
C12_Witness ==
    \E r, o \in ReqIds :
        /\ req[r].route = "login" /\ req[r].status = 200
        /\ req[r].token = GenerateToken("c1", req[r].token.iat)
        /\ req[o].route = "me" /\ req[o].header.token = req[r].token
        /\ req[o].status = 401
        /\ now >= req[r].token.iat + 30

\* ---------------------------------------------------------------- C13
\* Request r is about to look up a line item whose product is not in the
\* catalog, or whose size is not in the product's stock ledger.
ProductMissing(r) == req[r].pc = "find" /\ ~products[Item(req[r]).product].exists
SizeMissing(r) ==
    /\ req[r].pc = "find"
    /\ products[Item(req[r]).product].exists
    /\ LiveQty(Item(req[r]).product, Item(req[r]).size) = Absent

\* C13: a placeOrder line item naming a product that does not exist, or a
\* size that is not in the product's stock ledger, ends the request with a
\* not-found answer, which is neither the 400 of InsufficientStock nor the
\* 500 of a storage failure, and the lookup changes no stock.
C13_NotFoundReported ==
    [][\A r \in ReqIds :
         ((ProductMissing(r) \/ SizeMissing(r)) /\ req'[r] # req[r])
         => /\ req'[r].pc = "done"
            /\ req'[r].status \notin {201, 400, 500}
            /\ products' = products]_vars

\* ---------------------------------------------------------------- C14
\* The login request r is answered in this step.
LoginEnds(r) == req[r].route = "login" /\ ~Finished(r) /\ req'[r].pc = "done"

\* The login request r found a user whose stored hash is the hash of the
\* password it sent.
LoginMatches(r) ==
    /\ req[r].pc = "lcompare"
    /\ "password" \in DOMAIN req[r].body
    /\ req[r].doc.password = Hash(req[r].body.password)

\* C14: login is answered InvalidCredentials (401) when the email is unknown
\* or the password does not match the stored hash, AccountDisabled (403) when
\* the credentials match and the user's active flag is false, and hands out
\* a token, for that user, only when the credentials match and the user is
\* active; the user it judges is the one stored under the email sent.
C14_LoginOutcomes ==
    [][\A r \in ReqIds :
         /\ LoginEnds(r) =>
               /\ ~LoginMatches(r)
                    => req'[r].status = 401 /\ req'[r].token = NoToken
               /\ (LoginMatches(r) /\ ~req[r].doc.isActive)
                    => req'[r].status = 403 /\ req'[r].token = NoToken
               /\ (LoginMatches(r) /\ req[r].doc.isActive)
                    => /\ req'[r].status = 200
                       /\ req'[r].token.sig = "ok"
                       /\ req'[r].token.id = req[r].doc.id
         /\ req'[r].pc = "lcompare" =>
               /\ req'[r].doc.id \in FindByEmail(users, req'[r].body.email)
               /\ req'[r].doc.isActive = users[req'[r].doc.id].isActive
               /\ req'[r].doc.password = users[req'[r].doc.id].password]_vars

\* ---------------------------------------------------------------- C15
\* An address with its letters in lower case.
Lower(email) == IF email = "Ann@x.io" THEN "ann@x.io" ELSE email

\* The register request r is answered in this step.
RegisterEnds(r) == req[r].route = "register" /\ ~Finished(r) /\ req'[r].pc = "done"

\* C15: after any interleaving of register requests no two stored users have
\* emails that are equal when letter case is ignored, and a registration of
\* an email already in use is answered DuplicateEmail (400) and creates no
\* user.
C15_EmailUnique ==
    [][/\ \A u, w \in DOMAIN users' :
            Lower(users'[u].email) = Lower(users'[w].email) => u = w
       /\ \A r \in ReqIds :
            (/\ RegisterEnds(r)
             /\ \E u \in DOMAIN users :
                  Lower(users[u].email) = Lower(req[r].body.email))
            => req'[r].status = 400 /\ users' = users]_vars

\* ---------------------------------------------------------------- C16
\* The identity the token of request r was issued to.
Caller(r) == req[r].header.token.id

\* C16: the owner of every committed Order is the identity resolved from the
\* token of the request that created it, whatever the body names as user, and
\* the listing of one's own orders returns exactly the Orders whose owner is
\* the caller, never an Order of another user.
C16_OwnerFromToken ==
    [][/\ Commits =>
            \E r \in ReqIds :
                /\ req[r].pc = "saveOrder" /\ req'[r].status = 201
                /\ Committed.user = Caller(r)
       /\ \A k \in 1..Len(orders) : orders'[k].user = orders[k].user
       /\ \A r \in ReqIds :
            (req[r].pc = "mfind" /\ req'[r].pc = "done")
            => LET got == req'[r].result
               IN /\ \A k \in 1..Len(got) : got[k].user = Caller(r)
                  /\ Len(got) = Cardinality({k \in 1..Len(orders) :
                                                orders[k].user = Caller(r)})
                  /\ \A k \in 1..Len(got) : \E j \in 1..Len(orders) : got[k] = orders[j]]_vars

\* The client has placed an order whose body names the admin as user, and the
\* client's listing of its own orders has then returned that order.
C16_Witness ==
    \E r, o \in ReqIds :
        /\ PlacesOrder(r) /\ Caller(r) = "c1" /\ req[r].body.user = "a1"
        /\ req[r].status = 201
        /\ req[o].route = "myOrders" /\ Caller(o) = "c1" /\ req[o].status = 200
        /\ req[o].result = orders /\ Len(orders) = 1 /\ orders[1].user = "c1"

\* ---------------------------------------------------------------- C17
\* C17: every line item of every committed Order has quantity >= 1, and no
\* step of a placeOrder request, whatever quantity the caller sent, zero and
\* negative included, increases the quantity of a stock entry.
C17_QuantityPositive ==
    [][/\ \A k \in 1..Len(orders') :
            \A j \in 1..Len(orders'[k].products) : orders'[k].products[j].quantity >= 1
       /\ \A p \in ProductIds : \A s \in Sizes :
            (LiveQty(p, s) # Absent /\ QtyOf(products'[p].stock, s) # Absent)
            => QtyOf(products'[p].stock, s) <= LiveQty(p, s)]_vars

\* ---------------------------------------------------------------- C18
\* The placeOrder request r is answered in this step.
OrderEnds(r) == PlacesOrder(r) /\ ~Finished(r) /\ req'[r].pc = "done"

\* C18: every placeOrder answered 201 commits exactly one Order, in its last
\* step and after the loop has gone through all its line items, with status
\* Pending and payment status Completed; a placeOrder answered with an error
\* commits no Order; committed Orders are as many as the requests answered 201.
C18_OneOrderPerSuccess ==
    [][/\ \A r \in ReqIds :
            OrderEnds(r) =>
                IF req'[r].status = 201
                THEN /\ Commits
                     /\ req[r].pc = "saveOrder" /\ req[r].i = Len(Items(r))
                     /\ Committed.products = Items(r)
                     /\ Committed.status = "Pending"
                     /\ Committed.paymentStatus = "Completed"
                ELSE orders' = orders
       /\ \A k \in 1..Len(orders) : Len(orders') >= k /\ orders'[k] = orders[k]
       /\ Len(orders') = Cardinality({r \in ReqIds :
                            req'[r].route = "placeOrder" /\ req'[r].status = 201})]_vars

\* A two-line order has been committed, and another request whose loop also
\* went through all its lines was answered with an error at order.save().
C18_Witness ==
    \E r, o \in ReqIds :
        /\ PlacesOrder(r) /\ req[r].status = 201 /\ Len(Items(r)) = 2
        /\ PlacesOrder(o) /\ req[o].status = 500 /\ req[o].i = Len(Items(o))
        /\ ~OrderValid(req[o].body)
        /\ Len(orders) = 1 /\ orders[1].products = Items(r)

\* ---------------------------------------------------------------- C19
\* The handler of request r was started after protect verified the token and
\* found its user, and on an admin-only route after isAdmin passed as well.
GatesPassed(r) ==
    LET h == req[r].header
    IN /\ h.scheme = "Bearer" /\ Verify(h.token)
       /\ h.token.id \in DOMAIN users
       /\ req[r].user = h.token.id
       /\ req[r].route \in AdminRoutes => users[h.token.id].role = "admin"

\* C19: on every protected route the handler runs only for a request that
\* protect, and on admin-only routes isAdmin too, has let through, and no
\* write to users, products or orders is made by a request that either check
\* rejected: every write is a step of a request whose handler was started.
C19_HandlerAfterGates ==
    [][/\ \A r \in ReqIds :
            /\ (req'[r].route \in ProtectedRoutes /\ req'[r].ran) => GatesPassed(r)'
            /\ (Arrived(r) /\ ~req[r].ran) => req'[r] = req[r]
       /\ <<users, products, orders>>' # <<users, products, orders>>
            => \E r \in ReqIds : req[r].ran /\ req'[r] # req[r]]_vars

\* The client's call of the delete route was turned down with the product
\* still in place, and the admin's later call has removed it.
C19_Witness ==
    \E r, o \in ReqIds :
        /\ r < o
        /\ req[r].route = "deleteProduct" /\ Caller(r) = "c1"
        /\ req[r].status = 403 /\ ~req[r].ran
        /\ req[o].route = "deleteProduct" /\ Caller(o) = "a1"
        /\ req[o].status = 200 /\ ~products["p1"].exists

\* ---------------------------------------------------------------- C20
\* C20: for every authorization header (absent, not starting with Bearer,
\* Bearer with no token part, Bearer with an invalid token, Bearer with a
\* valid token) protect has exactly one outcome per request: it calls next
\* once and sends nothing, or it sends exactly one 401 and does not call
\* next; never two responses, and never a response together with next.
C20_ProtectOneOutcome ==
    [][\A r \in ReqIds :
         (Arrives(r) /\ req'[r].route \in ProtectedRoutes)
         => LET g == Protect(req'[r].header, users)
            IN /\ \/ g.next /\ g.sends = 0
                  \/ ~g.next /\ g.sends = 1
               /\ ~g.next => /\ req'[r].status = 401
                              /\ req'[r].sends = 1
                              /\ ~req'[r].ran]_vars

\* ---------------------------------------------------------------- C21
\* C21: every user created by register has role client, whatever role the
\* body asks for, and no step of a register, login, /api/auth/me, placeOrder
\* or toggle-active request changes the role of a stored user or removes
\* one; a user is only ever added by a registration answered 201.
C21_RoleImmutable ==
    [][/\ \A u \in DOMAIN users :
            u \in DOMAIN users' /\ users'[u].role = users[u].role
       /\ \A u \in DOMAIN users' \ DOMAIN users :
            /\ users'[u].role = "client"
            /\ \E r \in ReqIds : RegisterEnds(r) /\ req'[r].status = 201
                                    /\ req'[r].user = u]_vars

\* A registration that asked for the role admin has created a client, and
\* that user's own call of the admin-only toggle was turned down.
C21_Witness ==
    \E r, o \in ReqIds :
        /\ req[r].route = "register" /\ req[r].status = 201
        /\ req[r].body.role = "admin"
        /\ req[r].user \in DOMAIN users /\ users[req[r].user].role = "client"
        /\ req[o].route = "toggleActive" /\ req[o].header.token = req[r].token
        /\ req[o].status = 403

\* ---------------------------------------------------------------- C22
\* The toggle-active request r is answered in this step.
ToggleEnds(r) == req[r].route = "toggleActive" /\ req[r].ran /\ ~Finished(r)
                    /\ req'[r].pc = "done"

\* C22: toggle-active on an existing user flips that user's active flag and
\* changes nothing else (the stored password hash, the email and the role
\* stay as they are, and so does every other user); on a user that does not
\* exist it answers 404 and changes no user.
C22_ToggleFlipsOnly ==
    [][\A r \in ReqIds :
         ToggleEnds(r) =>
            LET t == req[r].target
            IN IF t \in DOMAIN users
               THEN /\ req'[r].status = 200
                    /\ DOMAIN users' = DOMAIN users
                    /\ users'[t].isActive = ~users[t].isActive
                    /\ users'[t].password = users[t].password
                    /\ users'[t].email = users[t].email
                    /\ users'[t].role = users[t].role
                    /\ \A u \in DOMAIN users \ {t} : users'[u] = users[u]
               ELSE req'[r].status = 404 /\ users' = users]_vars

\* ---------------------------------------------------------------- C23
\* The body of request r has no line-item list, or an empty one.
NoItems(r) ==
    "orderItems" \notin DOMAIN req[r].body \/ req[r].body.orderItems = <<>>

\* C23: a placeOrder request whose line-item list is missing or empty is
\* answered 400 as soon as its handler starts, before any product is read:
\* the step changes no stock and commits no Order, and the request, being
\* answered, takes no further step.
C23_EmptyCartRejected ==
    [][\A r \in ReqIds :
         /\ (Arrives(r) /\ req'[r].route = "placeOrder" /\ req'[r].ran /\ NoItems(r)')
               => /\ req'[r].pc = "done" /\ req'[r].status = 400
                  /\ req'[r].i = 0
                  /\ products' = products
                  /\ orders' = orders
         /\ Finished(r) => req'[r] = req[r]]_vars

\* One request without a line-item list and one with an empty list have both
\* been answered 400, with the stock as it was and no Order.
C23_Witness ==
    \E r, o \in ReqIds :
        /\ req[r].route = "placeOrder" /\ req[r].ran
        /\ "orderItems" \notin DOMAIN req[r].body /\ req[r].status = 400
        /\ req[o].route = "placeOrder" /\ req[o].ran
        /\ "orderItems" \in DOMAIN req[o].body /\ req[o].body.orderItems = <<>>
        /\ req[o].status = 400
        /\ products = InitProducts /\ orders = <<>>

====
